---- MODULE Spec2Model ----
(***************************************************************************)
(* A model of genmlir.py, the lowering of a Python AST to the MLIR python  *)
(* dialect: the scope analysis (VariableCapture), the symbol allocator     *)
(* (Module.fresh_symbol), the lowering of statements and expressions to    *)
(* blocks (Translator) and the module driver (translateModule).            *)
(*                                                                         *)
(* The AST is not a variable of the model: a visitor that walks an AST     *)
(* performs a sequence of visits, and the model's actions are these        *)
(* visits, chosen one after the other.  Every sequence the model takes is  *)
(* the walk of some AST of the supported subset.                           *)
(***************************************************************************)
EXTENDS Integers, Sequences, FiniteSets, TLC

VARIABLES
    stack,        \* the active VariableCapture objects, module scope first
    scope_map,    \* VariableCapture.map: node identity -> VariableScope
    scope_parent, \* per analysed node: the node of the scope that encloses it
    name_nodes,   \* the ast.Name nodes of the AST walked so far
    steps,        \* number of nodes walked; also the next node's line:col
    driver,       \* translateModule: its position and what it raised
    mod_vars,     \* Module._vars: symbol stem -> number of repeats handed out
    symbols,      \* the names fresh_symbol returned, in the order of the requests
    last_request, \* the argument of the latest fresh_symbol call, if any
    funcs,        \* the functions of the MLIR module, in the order of their creation
    trs,          \* the Translators at work: the module's, then those of the
                  \* function definitions being lowered, innermost last
    lowering      \* the lowering: its position, what it raised, statements lowered

scopeVars == <<stack, scope_map, scope_parent, name_nodes, steps, driver>>

freshVars == <<mod_vars, symbols, last_request>>

lowerVars == <<funcs, trs, lowering>>

vars == <<scopeVars, freshVars, lowerVars>>

(***************************************************************************)
(* Bounds of the model.                                                    *)
(***************************************************************************)
MaxSteps == 3
MaxDepth == 2
MaxRequests == 3
MaxBaseLen == 2
MaxStmts == 3
MaxNest == 2

None == "None"

(***************************************************************************)
(* BuiltinSet: python name -> mlir name.                                   *)
(***************************************************************************)
SameNameBuiltins ==
    { "abs", "aiter", "all", "any", "anext", "ascii", "bin", "breakpoint",
      "bytearray", "bytes", "callable", "chr", "classmethod", "compile",
      "complex", "delattr", "dict", "dir", "divmod", "enumerate", "eval",
      "exec", "filter", "format", "frozenset", "getattr", "globals",
      "hasattr", "hash", "help", "hex", "id", "input", "isinstance",
      "issubclass", "iter", "len", "list", "locals", "map", "max",
      "memoryview", "min", "next", "object", "oct", "open", "ord", "pow",
      "print", "property", "range", "repr", "reversed", "round", "set",
      "setattr", "slice", "sorted", "staticmethod", "str", "sum", "super",
      "tuple", "type", "vars", "zip" }

RenamedBuiltins ==
    [ n \in {"bool", "float", "int", "__import__", "__name__"} |->
        CASE n = "bool" -> "bool_builtin"
          [] n = "float" -> "float_builtin"
          [] n = "int" -> "int_builtin"
          [] n = "__import__" -> "import"
          [] n = "__name__" -> "scriptmain" ]

builtin_mlir_name(name) ==
    IF name \in SameNameBuiltins THEN name
    ELSE IF name \in DOMAIN RenamedBuiltins THEN RenamedBuiltins[name]
    ELSE None

\* The identifiers of the programs walked: two plain names and a builtin.
Names == {"x", "y", "print"}

(***************************************************************************)
(* Insertion-ordered dictionaries (Python dict) are sequences.             *)
(***************************************************************************)
Range(s) == { s[i] : i \in 1..Len(s) }

RefNames(refs) == { refs[i].id : i \in 1..Len(refs) }

\* dict.pop(name, None) on a dict of ast.Name nodes keyed by their id
PopRef(refs, name) == SelectSeq(refs, LAMBDA r : r.id # name)

\* dict[name] = None: a key already present keeps its place
PutVar(vs, name) == IF name \in Range(vs) THEN vs ELSE Append(vs, name)

(***************************************************************************)
(* VariableCapture                                                         *)
(***************************************************************************)
NewCapture(ident, kind, chain) ==
    [ id |-> ident, kind |-> kind, chain |-> chain,
      vars |-> <<>>, references |-> <<>> ]

\* add_reference that does not look at the names defined in the scope
add_reference_ignores_vars(cap, node) ==
    IF /\ builtin_mlir_name(node.id) = None
       /\ node.id \notin RefNames(cap.references)
    THEN [cap EXCEPT !.references = Append(@, node)]
    ELSE cap

add_reference(cap, node) ==
    IF /\ builtin_mlir_name(node.id) = None
       /\ node.id \notin Range(cap.vars)
       /\ node.id \notin RefNames(cap.references)
    THEN [cap EXCEPT !.references = Append(@, node)]
    ELSE cap

\* addVar that leaves the name among the references
addVar_keeps_reference(cap, name) ==
    [cap EXCEPT !.vars = PutVar(@, name)]

addVar(cap, name) ==
    [cap EXCEPT !.vars = PutVar(@, name),
                !.references = PopRef(@, name)]

RECURSIVE addArgs(_, _)
addArgs(cap, args) ==
    IF args = <<>> THEN cap
    ELSE addArgs(addVar(cap, Head(args)), Tail(args))

\* VariableScope.__init__: vars is kept, the reference nodes are copied in order
mkScope(cap) == [ vars |-> cap.vars, parent_vars |-> cap.references ]

RECURSIVE AddReferences(_, _)
AddReferences(cap, nodes) ==
    IF nodes = <<>> THEN cap
    ELSE AddReferences(add_reference(cap, Head(nodes)), Tail(nodes))

\* close_scope that leaves the inner references behind
close_scope_drops_references(outer, inner) == outer

\* close_scope, on the capture object: the inner references become references here
close_scope(outer, inner) == AddReferences(outer, inner.references)

Top == stack[Len(stack)]

SetTop(cap) == [stack EXCEPT ![Len(stack)] = cap]

Analysing == driver.pc = "analyse"

CanStep == Analysing /\ steps < MaxSteps

StatementScope == Top.kind \in {"module", "function"}

NewNode(name) == [ id |-> name, loc |-> steps + 1 ]

\* An ast.Name node of the AST: its identifier, the scope it stands in, how the
\* AST holds it and its line:col
Occurrence(name, ctx) ==
    [ id |-> name, scope |-> Top.id, ctx |-> ctx, loc |-> steps + 1 ]

\* The parameter lists tried for a function or a lambda
ArgLists == { <<>>, <<"x">> }

(***************************************************************************)
(* The visits of VariableCapture.  A visit acts on the innermost active    *)
(* capture object, as the recursive visitor does.                          *)
(***************************************************************************)
\* visit_Name: a name that is read
visit_Name(n) ==
    /\ CanStep
    /\ stack' = SetTop(add_reference(Top, NewNode(n)))
    /\ name_nodes' = name_nodes \cup {Occurrence(n, "Load")}
    /\ steps' = steps + 1
    /\ UNCHANGED <<scope_map, scope_parent, driver>>

\* addLhs on a Name: the target of visit_Assign, visit_AugAssign or visit_For,
\* and the alias of visit_Import (a.asname or a.name)
addLhs(n) ==
    /\ CanStep
    /\ StatementScope
    /\ stack' = SetTop(addVar(Top, n))
    /\ name_nodes' = name_nodes \cup {Occurrence(n, "Store")}
    /\ steps' = steps + 1
    /\ UNCHANGED <<scope_map, scope_parent, driver>>

\* visit_FunctionDef up to the walk of the body: the name is defined here and
\* a new capture object, holding the parameters, becomes the innermost one
visit_FunctionDef(n, args) ==
    /\ CanStep
    /\ StatementScope
    /\ Len(stack) <= MaxDepth
    /\ stack' = Append(SetTop(addVar(Top, n)),
                       addArgs(NewCapture(steps + 1, "function", FALSE), args))
    /\ scope_parent' = [ i \in DOMAIN scope_parent \cup {steps + 1} |->
                           IF i = steps + 1 THEN Top.id ELSE scope_parent[i] ]
    /\ steps' = steps + 1
    /\ UNCHANGED <<scope_map, name_nodes, driver>>

\* visit_Lambda up to the walk of the body
visit_Lambda(args) ==
    /\ CanStep
    /\ Len(stack) <= MaxDepth
    /\ stack' = Append(stack, addArgs(NewCapture(steps + 1, "lambda", FALSE), args))
    /\ scope_parent' = [ i \in DOMAIN scope_parent \cup {steps + 1} |->
                           IF i = steps + 1 THEN Top.id ELSE scope_parent[i] ]
    /\ steps' = steps + 1
    /\ UNCHANGED <<scope_map, name_nodes, driver>>

\* visit_ListComp, one turn of its first loop, after g.iter was visited: a new
\* capture object with the generator's target.  chain says that the generator
\* is a further generator of the comprehension that opened the innermost scope.
visit_ListComp_generator(target, chain) ==
    /\ CanStep
    /\ Len(stack) <= MaxDepth
    /\ chain => Top.kind = "comp"
    /\ stack' = Append(stack, addVar(NewCapture(steps + 1, "comp", chain), target))
    /\ scope_parent' = [ i \in DOMAIN scope_parent \cup {steps + 1} |->
                           IF i = steps + 1 THEN Top.id ELSE scope_parent[i] ]
    /\ name_nodes' = name_nodes \cup {[ id |-> target, scope |-> steps + 1,
                                        ctx |-> "Store", loc |-> steps + 1 ]}
    /\ steps' = steps + 1
    /\ UNCHANGED <<scope_map, driver>>

\* The end of a scope: close_scope of the enclosing capture object on the
\* innermost one.  The second loop of visit_ListComp closes the scopes of all
\* the generators of the comprehension, innermost first, in one go.
RECURSIVE PopScopes(_, _)
PopScopes(stk, map) ==
    LET inner == stk[Len(stk)]
        outer == stk[Len(stk) - 1]
        map2  == [ i \in DOMAIN map \cup {inner.id} |->
                     IF i = inner.id THEN mkScope(inner) ELSE map[i] ]
        stk2  == [ SubSeq(stk, 1, Len(stk) - 1) EXCEPT
                     ![Len(stk) - 1] = close_scope(outer, inner) ]
    IN  IF inner.chain THEN PopScopes(stk2, map2)
        ELSE [ stack |-> stk2, map |-> map2 ]

CloseScope ==
    /\ Analysing
    /\ Len(stack) > 1
    /\ LET r == PopScopes(stack, scope_map)
       IN  /\ stack' = r.stack
           /\ scope_map' = r.map
    /\ UNCHANGED <<scope_parent, name_nodes, steps, driver>>

\* visit_With on an item "... as n": only item.context_expr is visited
visit_With_as(n) ==
    /\ CanStep
    /\ StatementScope
    /\ name_nodes' = name_nodes \cup {Occurrence(n, "With")}
    /\ steps' = steps + 1
    /\ UNCHANGED <<stack, scope_map, scope_parent, driver>>

\* visit_GeneratorExp on a generator expression in which the name n occurs:
\* returns True and visits nothing
visit_GeneratorExp(n) ==
    /\ CanStep
    /\ name_nodes' = name_nodes \cup {Occurrence(n, "GeneratorExp")}
    /\ steps' = steps + 1
    /\ UNCHANGED <<stack, scope_map, scope_parent, driver>>

(***************************************************************************)
(* translateModule, after varCapture.visit_stmts(tree.body)                *)
(***************************************************************************)
UnknownVariables(refs) ==
    [ header |-> "Unknown variables:",
      lines  |-> [ i \in 1..Len(refs) |-> <<refs[i].loc, refs[i].id>> ] ]

\* translateModule that lets a single unknown variable pass
translateModule_lets_one_pass ==
    /\ Analysing
    /\ Len(stack) = 1
    /\ IF Len(stack[1].references) > 1
       THEN driver' = [ pc |-> "raised",
                        msg |-> UnknownVariables(stack[1].references),
                        functions |-> <<>> ]
       ELSE driver' = [ pc |-> "lowering",
                        msg |-> None,
                        functions |-> <<"script_main">> ]
    /\ UNCHANGED <<stack, scope_map, scope_parent, name_nodes, steps>>

translateModule ==
    /\ Analysing
    /\ Len(stack) = 1
    /\ IF Len(stack[1].references) > 0
       THEN driver' = [ pc |-> "raised",
                        msg |-> UnknownVariables(stack[1].references),
                        functions |-> <<>> ]
       ELSE driver' = [ pc |-> "lowering",
                        msg |-> None,
                        functions |-> <<"script_main">> ]
    /\ UNCHANGED <<stack, scope_map, scope_parent, name_nodes, steps>>

\* Module.__init__
InitModule ==
    /\ mod_vars = << >>
    /\ symbols = << >>
    /\ last_request = << >>

InitAnalysis ==
    /\ stack = << NewCapture(0, "module", FALSE) >>
    /\ scope_map = << >>
    /\ scope_parent = << >>
    /\ name_nodes = {}
    /\ steps = 0
    /\ driver = [ pc |-> "analyse", msg |-> None, functions |-> <<>> ]

\* Nothing is lowered
InitNoLowering ==
    /\ funcs = << >>
    /\ trs = << >>
    /\ lowering = [ pc |-> "idle", err |-> None, stmts |-> 0 ]

InitScope == InitAnalysis /\ InitModule /\ InitNoLowering

NextScope ==
    \/ \E n \in Names : visit_Name(n) /\ UNCHANGED <<freshVars, lowerVars>>
    \/ \E n \in Names : addLhs(n) /\ UNCHANGED <<freshVars, lowerVars>>
    \/ \E n \in Names, args \in ArgLists : visit_FunctionDef(n, args) /\ UNCHANGED <<freshVars, lowerVars>>
    \/ \E args \in ArgLists : visit_Lambda(args) /\ UNCHANGED <<freshVars, lowerVars>>
    \/ \E n \in Names, chain \in BOOLEAN : visit_ListComp_generator(n, chain) /\ UNCHANGED <<freshVars, lowerVars>>
    \/ CloseScope /\ UNCHANGED <<freshVars, lowerVars>>
    \/ \E n \in Names : visit_With_as(n) /\ UNCHANGED <<freshVars, lowerVars>>
    \/ \E n \in Names : visit_GeneratorExp(n) /\ UNCHANGED <<freshVars, lowerVars>>
    \/ translateModule /\ UNCHANGED <<freshVars, lowerVars>>

SpecScope == InitScope /\ [][NextScope]_vars

(***************************************************************************)
(* The scopes after the analysis, for the statements about it.             *)
(***************************************************************************)
ModuleScopeId == 0

ScopeIds == {ModuleScopeId} \cup DOMAIN scope_map

\* The locals of a scope: of the module scope and of the scopes still being
\* analysed from their capture object, of a closed scope from the scope map
ActiveIds == { stack[k].id : k \in 1..Len(stack) }

ActiveCapture(i) == stack[CHOOSE k \in 1..Len(stack) : stack[k].id = i]

LocalsOf(i) ==
    IF i \in ActiveIds THEN Range(ActiveCapture(i).vars)
    ELSE IF i \in DOMAIN scope_map THEN Range(scope_map[i].vars)
    ELSE {}

FreeOf(i) ==
    IF i \in ActiveIds THEN RefNames(ActiveCapture(i).references)
    ELSE IF i \in DOMAIN scope_map THEN RefNames(scope_map[i].parent_vars)
    ELSE {}

RECURSIVE EnclosingScopes(_)
EnclosingScopes(i) ==
    IF i = ModuleScopeId THEN {ModuleScopeId}
    ELSE {i} \cup EnclosingScopes(scope_parent[i])

\* C1: in every scope of the scope map, in the module scope and in every scope
\* under analysis, no name is both a local and in the free list.
C1_LocalsFreeDisjoint ==
    /\ \A i \in DOMAIN scope_map :
         Range(scope_map[i].vars) \cap RefNames(scope_map[i].parent_vars) = {}
    /\ \A k \in 1..Len(stack) :
         Range(stack[k].vars) \cap RefNames(stack[k].references) = {}

\* A closed scope with locals and captured names, beside a module scope in
\* which a name was defined
C1_Witness ==
    /\ \E i \in DOMAIN scope_map :
         scope_map[i].vars # <<>> /\ scope_map[i].parent_vars # <<>>
    /\ stack[1].vars # <<>>

\* C7: once the analysis has accepted the module, every Name node of the AST
\* is a local of a scope that encloses it, or in the free list of its scope,
\* or a builtin.
NameCovered(o) ==
    \/ builtin_mlir_name(o.id) # None
    \/ o.id \in FreeOf(o.scope)
    \/ \E s \in EnclosingScopes(o.scope) : o.id \in LocalsOf(s)

C7_NamesCovered ==
    driver.pc = "lowering" => \A o \in name_nodes : NameCovered(o)

\* C9: when the analysis of the module body ends with free references at the
\* module scope, the driver raises "Unknown variables" listing each of them
\* with the line:col of a read of it, and emits no function; with none, the
\* driver does not raise.  The names that remain are the names read in a scope
\* where neither that scope nor a scope around it defines them.
UnknownNames ==
    { o.id : o \in { n \in name_nodes :
                       /\ n.ctx = "Load"
                       /\ builtin_mlir_name(n.id) = None
                       /\ \A s \in EnclosingScopes(n.scope) : n.id \notin LocalsOf(s) } }

C9_UnknownVariables ==
    driver.pc # "analyse" =>
        LET refs == stack[1].references IN
        /\ RefNames(refs) = UnknownNames
        /\ refs # <<>> =>
             /\ driver.pc = "raised"
             /\ driver.msg.header = "Unknown variables:"
             /\ Len(driver.msg.lines) = Cardinality(UnknownNames)
             /\ \A n \in UnknownNames :
                  \E i \in 1..Len(driver.msg.lines) :
                     /\ driver.msg.lines[i][2] = n
                     /\ \E o \in name_nodes :
                          o.ctx = "Load" /\ o.id = n /\ o.loc = driver.msg.lines[i][1]
             /\ driver.functions = <<>>
        /\ refs = <<>> => driver.pc = "lowering" /\ driver.msg = None

\* The driver raised on two unknown names, one of them read in a nested scope
C9_Witness ==
    /\ driver.pc = "raised"
    /\ Len(driver.msg.lines) = 2
    /\ \E i \in DOMAIN scope_map : scope_map[i].parent_vars # <<>>

(***************************************************************************)
(* Module.fresh_symbol.  A string is the sequence of its characters.       *)
(***************************************************************************)
Chars == {"a", "@", "0"}

Strings(n) == UNION { [1..k -> Chars] : k \in 0..n }

mlir_gen == <<"_", "m", "l", "i", "r", "_", "g", "e", "n">>

\* Python's None where a string is expected: no string of characters
NoString == << "None" >>

\* The arguments tried: null, the short strings, and the fallback stem itself
Bases == {NoString} \cup Strings(MaxBaseLen) \cup {mlir_gen}

\* str.replace('@', '')
StripAt(nm) == SelectSeq(nm, LAMBDA c : c # "@")

DigitChar == <<"0", "1", "2", "3", "4", "5", "6", "7", "8", "9">>

\* str(cnt) of a count >= 0
RECURSIVE Decimal(_)
Decimal(n) ==
    IF n < 10 THEN << DigitChar[n + 1] >>
    ELSE Decimal(n \div 10) \o << DigitChar[(n % 10) + 1] >>

\* The stem looked up for an argument (lines 180-186)
SymbolStem(nm) ==
    IF nm = NoString THEN mlir_gen
    ELSE IF StripAt(nm) = <<>> THEN mlir_gen
    ELSE StripAt(nm)

\* fresh_symbol that leaves the count of a repeated stem as it is
fresh_symbol_no_increment(counts, nm) ==
    LET stem == SymbolStem(nm) IN
    IF stem \notin DOMAIN counts
    THEN [ counts |-> [ k \in DOMAIN counts \cup {stem} |->
                          IF k = stem THEN 0 ELSE counts[k] ],
           name |-> stem ]
    ELSE [ counts |-> counts,
           name |-> stem \o <<"@">> \o Decimal(counts[stem]) ]

\* fresh_symbol that does not take the '@' out of its argument
fresh_symbol_keeps_at(counts, nm) ==
    LET stem == IF nm = NoString \/ nm = <<>> THEN mlir_gen ELSE nm IN
    IF stem \notin DOMAIN counts
    THEN [ counts |-> [ k \in DOMAIN counts \cup {stem} |->
                          IF k = stem THEN 0 ELSE counts[k] ],
           name |-> stem ]
    ELSE [ counts |-> [ counts EXCEPT ![stem] = @ + 1 ],
           name |-> stem \o <<"@">> \o Decimal(counts[stem]) ]

\* fresh_symbol on the dictionary _vars: the dictionary after the call and the
\* name returned
fresh_symbol(counts, nm) ==
    LET stem == SymbolStem(nm) IN
    IF stem \notin DOMAIN counts
    THEN [ counts |-> [ k \in DOMAIN counts \cup {stem} |->
                          IF k = stem THEN 0 ELSE counts[k] ],
           name |-> stem ]
    ELSE [ counts |-> [ counts EXCEPT ![stem] = @ + 1 ],
           name |-> stem \o <<"@">> \o Decimal(counts[stem]) ]

\* One call of fresh_symbol on the module
RequestSymbol(base) ==
    /\ Len(symbols) < MaxRequests
    /\ LET r == fresh_symbol(mod_vars, base)
       IN  /\ mod_vars' = r.counts
           /\ symbols' = Append(symbols, r.name)
    /\ last_request' = << base >>
    /\ UNCHANGED <<scopeVars, lowerVars>>

InitFresh == InitAnalysis /\ InitModule /\ InitNoLowering

NextFresh == \E base \in Bases : RequestSymbol(base)

SpecFresh == InitFresh /\ [][NextFresh]_vars

\* C2: no two requests on one module return the same name.
C2_FreshDistinct ==
    \A i, j \in 1..Len(symbols) : i # j => symbols[i] # symbols[j]

\* Three requests, one of them repeating a stem and one for null or ""
C2_Witness ==
    /\ Len(symbols) = 3
    /\ mlir_gen \in Range(symbols)
    /\ \E i \in 1..3 : "@" \in Range(symbols[i])

\* C10: a request returns its base without the '@' characters (_mlir_gen for
\* null and for a base with nothing left) when no earlier request had that
\* stem, and the stem, '@' and k - 1 when k >= 1 earlier requests had it.
ExpectedStem(base) ==
    IF base = NoString THEN mlir_gen
    ELSE LET kept == { i \in 1..Len(base) : base[i] # "@" } IN
         IF kept = {} THEN mlir_gen
         ELSE [ j \in 1..Cardinality(kept) |->
                  base[CHOOSE i \in kept : Cardinality({ l \in kept : l <= i }) = j] ]

\* The part of a returned name before its '@'
NameStem(name) ==
    IF "@" \in Range(name)
    THEN SubSeq(name, 1, (CHOOSE i \in 1..Len(name) :
                            name[i] = "@" /\ \A l \in 1..(i - 1) : name[l] # "@") - 1)
    ELSE name

C10_FreshNaming ==
    last_request # << >> =>
        LET n     == Len(symbols)
            stem  == ExpectedStem(last_request[1])
            prior == Cardinality({ i \in 1..(n - 1) : NameStem(symbols[i]) = stem })
        IN  /\ "@" \notin Range(stem)
            /\ symbols[n] = IF prior = 0 THEN stem
                            ELSE stem \o <<"@">> \o Decimal(prior - 1)

\* The third request for a stem, made with a base that holds an '@'
C10_Witness ==
    /\ last_request # << >>
    /\ last_request[1] # NoString
    /\ "@" \in Range(last_request[1])
    /\ symbols[Len(symbols)] = <<"a", "@", "1">>

(***************************************************************************)
(* The emitted IR.  A function is its symbol and its blocks; a block is    *)
(* the number of its arguments and its operations in order; a value is a   *)
(* block argument or the result of an operation of the same function.      *)
(* Block 0 is no block (Python's None).                                    *)
(***************************************************************************)
NoBlock == 0

NoValue == [ kind |-> "none", blk |-> 0, idx |-> 0 ]

ArgV(b, i) == [ kind |-> "arg", blk |-> b, idx |-> i ]

ResV(b, i) == [ kind |-> "res", blk |-> b, idx |-> i ]

Op(name, operands, attr, succ) ==
    [ op |-> name, operands |-> operands, attr |-> attr, succ |-> succ ]

Succ(dest, args) == [ dest |-> dest, args |-> args ]

\* The two-successor operations of the python dialect
BinOps == { "python.add", "python.eq", "python.gt", "python.lt" }

UnaryOps == { "python.not", "python.usub" }

FallibleOps == {"python.invoke"} \cup BinOps \cup UnaryOps

Terminators == FallibleOps \cup {"cf.br", "cf.cond_br", "func.return"}

\* The lowering state threaded through one visit: the module's functions and
\* symbol counts, the Translator at work, and the exception raised, if any.
\* A method of several statements is written as local operators, one per
\* statement from the last to the first, each taking what the statements
\* before it have computed.
CurFun(st) == st.funcs[st.tr.fn]

NewBlockId(st) == Len(CurFun(st).blocks) + 1

\* The place of b in the region's block order
PlaceOf(order, b) == CHOOSE i \in 1..Len(order) : order[i] = b

\* Block.create_after(nargs): a new block, placed right after block `after`
create_after(st, after, nargs) ==
    LET id == Len(st.funcs[st.tr.fn].blocks) + 1
        at == PlaceOf(st.funcs[st.tr.fn].order, after)
    IN  [ st EXCEPT !.funcs[st.tr.fn].blocks = Append(@, [ nargs |-> nargs, ops |-> <<>> ]),
                    !.funcs[st.tr.fn].order =
                        SubSeq(@, 1, at) \o <<id>> \o SubSeq(@, at + 1, Len(@)) ]

\* with mlir.InsertionPoint(blk): the operation is appended to blk
Emit(st, blk, o) == [ st EXCEPT !.funcs[st.tr.fn].blocks[blk].ops = Append(@, o) ]

\* The result of the operation that Emit(st, blk, _) appends
NextRes(st, blk) == ResV(blk, Len(CurFun(st).blocks[blk].ops) + 1)

SetBlock(st, blk) == [ st EXCEPT !.tr.block = blk ]

Raise(st, what) == IF st.err = None THEN [ st EXCEPT !.err = what ] ELSE st

\* An operation with a result and no successor, emitted at the cursor
EmitValue(st, name, operands, attr) ==
    [ st  |-> Emit(st, st.tr.block, Op(name, operands, attr, <<>>)),
      val |-> NextRes(st, st.tr.block) ]

cell_load(st, cell) == EmitValue(st, "python.cell_load", <<cell>>, <<>>)

cell_store(st, blk, cell, value) ==
    Emit(st, blk, Op("python.cell_store", <<cell, value>>, <<>>, <<>>))

truthy(st, x) == EmitValue(st, "python.truthy", <<x>>, <<>>)

none_value(st) == EmitValue(st, "python.none", <<>>, <<>>)

get_method(st, w, name) == EmitValue(st, "python.get_method", <<w>>, <<name>>)

builtin(st, name) == EmitValue(st, "python.builtin", <<>>, <<name>>)

\* returnOp: func.return of mk_return(v) at the cursor
returnOp(st, v) ==
    LET return_of(s1) ==
            Emit(s1, s1.tr.block,
                 Op("func.return",
                    << ResV(s1.tr.block, Len(CurFun(s1).blocks[s1.tr.block].ops)) >>,
                    <<>>, <<>>))
    IN  return_of(Emit(st, st.tr.block, Op("python.mk_return", <<v>>, <<>>, <<>>)))

\* A new landing pad after the cursor: its argument wrapped by mk_except is
\* returned
new_except_block(st, id) ==
    [ Emit(Emit(create_after(st, st.tr.block, 1),
                id, Op("python.mk_except", << ArgV(id, 0) >>, <<>>, <<>>)),
           id, Op("func.return", << ResV(id, 1) >>, <<>>, <<>>))
      EXCEPT !.tr.exceptBlock = id,
             !.funcs[st.tr.fn].pad_requests = Append(@, id) ]

\* get_except_block that makes a new landing pad at every request
get_except_block_always_new(st) == new_except_block(st, NewBlockId(st))

\* get_except_block: the Translator afterwards; the block asked for is its
\* exceptBlock.  pad_requests records what each request returned.
get_except_block(st) ==
    IF st.tr.exceptBlock # NoBlock
    THEN [ st EXCEPT !.funcs[st.tr.fn].pad_requests = Append(@, st.tr.exceptBlock) ]
    ELSE new_except_block(st, NewBlockId(st))

\* A two-successor operation that names its return block only
Fallible_without_failure_successor(st, name, operands, attr) ==
    LET invoked(s1, returnBlock) ==
            [ st  |-> SetBlock(Emit(create_after(s1, s1.tr.block, 1), s1.tr.block,
                                    Op(name, operands, attr,
                                       << Succ(returnBlock, <<>>) >>)),
                               returnBlock),
              val |-> ArgV(returnBlock, 0) ]
        with_except(s1) == invoked(s1, NewBlockId(s1))
    IN  with_except(get_except_block(st))

\* A two-successor operation at the cursor (invoke lines 547-555, apply_binop,
\* visit_UnaryOp lines 921-929): s1 is the Translator after get_except_block;
\* the cursor moves to the return block, whose argument is the result
Fallible(st, name, operands, attr) ==
    LET invoked(s1, returnBlock) ==
            [ st  |-> SetBlock(Emit(create_after(s1, s1.tr.block, 1), s1.tr.block,
                                    Op(name, operands, attr,
                                       << Succ(returnBlock, <<>>),
                                          Succ(s1.tr.exceptBlock, <<>>) >>)),
                               returnBlock),
              val |-> ArgV(returnBlock, 0) ]
        with_except(s1) == invoked(s1, NewBlockId(s1))
    IN  with_except(get_except_block(st))

invoke(st, method, args, keywords) ==
    Fallible(st, "python.invoke", <<method>> \o args, keywords)

apply_binop(st, left, op, right) == Fallible(st, op, <<left, right>>, <<>>)

\* invoke_next with the two successors of the conditional branch exchanged
invoke_next_swapped(st, next, curBlock, doneBlock, throwBlock) ==
    LET emitted(s4, nextBlock, bodyBlock, exceptBlock) ==
            [ st |-> [ Emit(Emit(Emit(s4, nextBlock,
                                      Op("python.invoke", <<next>>, <<>>,
                                         << Succ(bodyBlock, <<>>),
                                            Succ(exceptBlock, <<>>) >>)),
                                 exceptBlock,
                                 Op("python.isinstance", << ArgV(exceptBlock, 0) >>,
                                    <<"StopIteration">>, <<>>)),
                            exceptBlock,
                            Op("cf.cond_br", << ResV(exceptBlock, 1) >>, <<>>,
                               << Succ(throwBlock, << ArgV(exceptBlock, 0) >>),
                                  Succ(doneBlock, <<>>) >>))
                       EXCEPT !.funcs[st.tr.fn].next_calls =
                           Append(@, [ nextBlock |-> nextBlock, bodyBlock |-> bodyBlock,
                                       exceptBlock |-> exceptBlock,
                                       doneBlock |-> doneBlock,
                                       throwBlock |-> throwBlock ]) ],
              nextBlock |-> nextBlock, bodyBlock |-> bodyBlock,
              val |-> ArgV(bodyBlock, 0) ]
        with_body(s3, nextBlock, bodyBlock) ==
            emitted(create_after(s3, nextBlock, 1), nextBlock, bodyBlock, NewBlockId(s3))
        with_next(s2, nextBlock) ==
            with_body(create_after(s2, nextBlock, 1), nextBlock, NewBlockId(s2))
        branched(nextBlock) ==
            with_next(Emit(create_after(st, curBlock, 0), curBlock,
                           Op("cf.br", <<>>, <<>>, << Succ(nextBlock, <<>>) >>)),
                      nextBlock)
    IN  branched(NewBlockId(st))

\* invoke_next: the blocks of one step of an iterator.  s2 is the function
\* after nextBlock and the branch to it (lines 40-42), s3 after bodyBlock
\* (line 44), s4 after exceptBlock (line 45); emitted is lines 47-55.
\* next_calls records the blocks of each call.
invoke_next(st, next, curBlock, doneBlock, throwBlock) ==
    LET emitted(s4, nextBlock, bodyBlock, exceptBlock) ==
            [ st |-> [ Emit(Emit(Emit(s4, nextBlock,
                                      Op("python.invoke", <<next>>, <<>>,
                                         << Succ(bodyBlock, <<>>),
                                            Succ(exceptBlock, <<>>) >>)),
                                 exceptBlock,
                                 Op("python.isinstance", << ArgV(exceptBlock, 0) >>,
                                    <<"StopIteration">>, <<>>)),
                            exceptBlock,
                            Op("cf.cond_br", << ResV(exceptBlock, 1) >>, <<>>,
                               << Succ(doneBlock, <<>>),
                                  Succ(throwBlock, << ArgV(exceptBlock, 0) >>) >>))
                       EXCEPT !.funcs[st.tr.fn].next_calls =
                           Append(@, [ nextBlock |-> nextBlock, bodyBlock |-> bodyBlock,
                                       exceptBlock |-> exceptBlock,
                                       doneBlock |-> doneBlock,
                                       throwBlock |-> throwBlock ]) ],
              nextBlock |-> nextBlock, bodyBlock |-> bodyBlock,
              val |-> ArgV(bodyBlock, 0) ]
        with_body(s3, nextBlock, bodyBlock) ==
            emitted(create_after(s3, nextBlock, 1), nextBlock, bodyBlock, NewBlockId(s3))
        with_next(s2, nextBlock) ==
            with_body(create_after(s2, nextBlock, 1), nextBlock, NewBlockId(s2))
        branched(nextBlock) ==
            with_next(Emit(create_after(st, curBlock, 0), curBlock,
                           Op("cf.br", <<>>, <<>>, << Succ(nextBlock, <<>>) >>)),
                      nextBlock)
    IN  branched(NewBlockId(st))

(***************************************************************************)
(* Cells, scopes and functions                                             *)
(***************************************************************************)
\* dict[k] = v
MapPut(m, k, v) == [ x \in DOMAIN m \cup {k} |-> IF x = k THEN v ELSE m[x] ]

\* alloc_variable_cells: one cell_alloc per name of names, in order, in block
\* blk; map, names and cells are extended
RECURSIVE alloc_variable_cells(_, _, _, _, _, _)
alloc_variable_cells(st, map, names, cells, blk, vs) ==
    IF vs = <<>> THEN [ st |-> st, map |-> map, names |-> names, cells |-> cells ]
    ELSE alloc_variable_cells(Emit(st, blk, Op("python.cell_alloc", <<>>, <<>>, <<>>)),
                              MapPut(map, Head(vs), NextRes(st, blk)),
                              Append(names, Head(vs)), Append(cells, NextRes(st, blk)),
                              blk, Tail(vs))

\* Translator.__init__
Translator(fn, blk, scope, cell_map) ==
    [ fn |-> fn, block |-> blk, onDone |-> <<>>, exceptBlock |-> NoBlock,
      cell_map |-> cell_map, scope_value |-> scope, frames |-> <<>> ]

\* builtin.FuncOp(symbol, type) with its entry block (Block.create_at_start)
FuncOp(symbol, nargs, scope, site) ==
    [ symbol |-> symbol, blocks |-> << [ nargs |-> nargs, ops |-> <<>> ] >>,
      order |-> <<1>>, pad_requests |-> <<>>, next_calls |-> <<>>,
      with_ends |-> <<>>, compare_sites |-> <<>>,
      list_comps |-> <<>>, constant_sites |-> <<>>, var_scope |-> scope, site |-> site ]

lambda_name == <<"_", "l", "a", "m", "b", "d", "a">>

script_main == <<"s", "c", "r", "i", "p", "t", "_", "m", "a", "i", "n">>

\* create_fun, lines 632-639: the captured names are bound to the block
\* arguments after the scope argument; the parent's cells are looked up
RECURSIVE BindCaptures(_, _, _, _)
BindCaptures(parent_map, captured, i, acc) ==
    IF i > Len(captured) THEN acc
    ELSE BindCaptures(parent_map, captured, i + 1,
             [ map     |-> MapPut(acc.map, captured[i].id, ArgV(1, 1 + (i - 1))),
               names   |-> Append(acc.names, captured[i].id),
               cells   |-> Append(acc.cells, ArgV(1, 1 + (i - 1))),
               closure |-> IF captured[i].id \in DOMAIN parent_map
                           THEN Append(acc.closure, parent_map[captured[i].id])
                           ELSE acc.closure,
               err     |-> IF captured[i].id \in DOMAIN parent_map \/ acc.err # None
                           THEN acc.err ELSE "Could not find variable" ])

\* create_fun, lines 648-653: the explicit arguments are stored into their cells
RECURSIVE StoreArgs(_, _, _, _, _)
StoreArgs(st, map, args, capture_count, i) ==
    IF i > Len(args) THEN st
    ELSE IF args[i] \notin DOMAIN map THEN Raise(st, "KeyError")
    ELSE StoreArgs(cell_store(st, 1, map[args[i]], ArgV(1, 1 + capture_count + (i - 1))),
                   map, args, capture_count, i + 1)

\* The exception of _lookup_cell, if it raised
RaiseIf(st, err) == IF err # None THEN Raise(st, err) ELSE st

\* reversed(closure_cells)
Reversed(s) == [ i \in 1..Len(s) |-> s[Len(s) + 1 - i] ]

\* create_fun that hands the closure the cells of the captured names last
\* name first
create_fun_reversed(st, name, args, var_scope) ==
    LET referenced(symbol, binds, al, s4) ==
            [ st  |-> RaiseIf(Emit(s4, s4.tr.block,
                                   Op("python.function_ref",
                                      << st.tr.scope_value >> \o Reversed(binds.closure),
                                      symbol.name, <<>>)),
                              binds.err),
              fun |-> Translator(Len(st.funcs) + 1, 1, NextRes(al.st, 1), al.map),
              val |-> NextRes(s4, s4.tr.block) ]
        allocated(symbol, binds, al) ==
            referenced(symbol, binds, al,
                [ StoreArgs(Emit(al.st, 1,
                                 Op("python.scope_extend", << ArgV(1, 0) >> \o al.cells,
                                    al.names, <<>>)),
                            al.map, args, Len(var_scope.parent_vars), 1)
                  EXCEPT !.tr = st.tr ])
        captured(symbol, binds) ==
            allocated(symbol, binds,
                alloc_variable_cells(
                    [ st EXCEPT !.counts = symbol.counts,
                                !.funcs = Append(@, FuncOp(symbol.name,
                                             1 + Len(var_scope.parent_vars) + Len(args),
                                             var_scope,
                                             [ fn |-> st.tr.fn, block |-> st.tr.block,
                                               cell_map |-> st.tr.cell_map ])),
                                !.tr = Translator(Len(st.funcs) + 1, 1, NoValue, << >>) ],
                    binds.map, binds.names, binds.cells, 1, var_scope.vars))
    IN  captured(fresh_symbol(st.counts, name),
                 BindCaptures(st.tr.cell_map, var_scope.parent_vars, 1,
                              [ map |-> << >>, names |-> <<>>, cells |-> <<>>,
                                closure |-> <<>>, err |-> None ]))

\* create_fun: the module with the new function, the Translator of the new
\* function and the function value in the creating function.  binds is lines
\* 626-639, al line 641, s4 the module after lines 643-653.
create_fun(st, name, args, var_scope) ==
    LET referenced(symbol, binds, al, s4) ==
            [ st  |-> RaiseIf(Emit(s4, s4.tr.block,
                                   Op("python.function_ref",
                                      << st.tr.scope_value >> \o binds.closure,
                                      symbol.name, <<>>)),
                              binds.err),
              fun |-> Translator(Len(st.funcs) + 1, 1, NextRes(al.st, 1), al.map),
              val |-> NextRes(s4, s4.tr.block) ]
        allocated(symbol, binds, al) ==
            referenced(symbol, binds, al,
                [ StoreArgs(Emit(al.st, 1,
                                 Op("python.scope_extend", << ArgV(1, 0) >> \o al.cells,
                                    al.names, <<>>)),
                            al.map, args, Len(var_scope.parent_vars), 1)
                  EXCEPT !.tr = st.tr ])
        captured(symbol, binds) ==
            allocated(symbol, binds,
                alloc_variable_cells(
                    [ st EXCEPT !.counts = symbol.counts,
                                !.funcs = Append(@, FuncOp(symbol.name,
                                             1 + Len(var_scope.parent_vars) + Len(args),
                                             var_scope,
                                             [ fn |-> st.tr.fn, block |-> st.tr.block,
                                               cell_map |-> st.tr.cell_map ])),
                                !.tr = Translator(Len(st.funcs) + 1, 1, NoValue, << >>) ],
                    binds.map, binds.names, binds.cells, 1, var_scope.vars))
    IN  captured(fresh_symbol(st.counts, name),
                 BindCaptures(st.tr.cell_map, var_scope.parent_vars, 1,
                              [ map |-> << >>, names |-> <<>>, cells |-> <<>>,
                                closure |-> <<>>, err |-> None ]))

(***************************************************************************)
(* Expressions.  An expression of the AST is a record with its node class  *)
(* in k; a Lambda and each generator of a ListComp carry the VariableScope *)
(* that the scope map holds for them (Module.get_scope).                   *)
(***************************************************************************)
Name(id) == [ k |-> "Name", id |-> id ]

Constant(type, value) == [ k |-> "Constant", type |-> type, value |-> value ]

Call(func, args) == [ k |-> "Call", func |-> func, args |-> args ]

BinOp(left, op, right) == [ k |-> "BinOp", left |-> left, op |-> op, right |-> right ]

UnaryOp(op, operand) == [ k |-> "UnaryOp", op |-> op, operand |-> operand ]

Compare(left, ops, comparators) ==
    [ k |-> "Compare", left |-> left, ops |-> ops, comparators |-> comparators ]

Lambda(args, body, scope) ==
    [ k |-> "Lambda", args |-> args, body |-> body, scope |-> scope ]

ListComp(elt, generators) == [ k |-> "ListComp", elt |-> elt, generators |-> generators ]

Generator(target, iter, scope) == [ target |-> target, iter |-> iter, scope |-> scope ]

VariableScope(vs, parent_vars) == [ vars |-> vs, parent_vars |-> parent_vars ]

\* bin_operator_map, comparison_map and unary_operator_map, for the operators
\* of the expressions tried
OperatorMap(op) ==
    CASE op = "Add" -> "python.add"
      [] op = "Eq"  -> "python.eq"
      [] op = "Gt"  -> "python.gt"
      [] op = "Lt"  -> "python.lt"
      [] op = "Not" -> "python.not"
      [] op = "USub" -> "python.usub"

\* assign_lhs on a Name target
assign_lhs(st, tgt, v) ==
    IF tgt \in DOMAIN st.tr.cell_map
    THEN cell_store(st, st.tr.block, st.tr.cell_map[tgt], v)
    ELSE Raise(st, "KeyError")

\* A Python int, of any size: its sign and the decimal digits of its
\* magnitude, the most significant first, without leading zero
PyInt(neg, digits) == [ neg |-> neg, digits |-> digits ]

\* The digits of 2**63
TwoTo63 == << 9, 2, 2, 3, 3, 7, 2, 0, 3, 6, 8, 5, 4, 7, 7, 5, 8, 0, 8 >>

\* a < b for magnitudes
MagLess(a, b) ==
    \/ Len(a) < Len(b)
    \/ /\ Len(a) = Len(b)
       /\ \E i \in 1..Len(a) : a[i] < b[i] /\ \A j \in 1..(i - 1) : a[j] = b[j]

\* a < b and a <= b for ints
IntLess(a, b) ==
    CASE a.neg /\ ~ b.neg -> TRUE
      [] ~ a.neg /\ b.neg -> FALSE
      [] ~ a.neg /\ ~ b.neg -> MagLess(a.digits, b.digits)
      [] a.neg /\ b.neg -> MagLess(b.digits, a.digits)

IntLeq(a, b) == a = b \/ IntLess(a, b)

\* str(c) of an int
IntStr(c) ==
    (IF c.neg THEN <<"-">> ELSE <<>>)
        \o [ i \in 1..Len(c.digits) |-> DigitChar[c.digits[i] + 1] ]

\* The classes of constant whose values are instances of int, and the int
\* that such a value is: bool is a subclass of int, True is 1 and False is 0
IntInstances == {"int", "bool"}

AsInt(c) ==
    IF c.type = "bool" THEN PyInt(FALSE, IF c.value THEN <<1>> ELSE <<0>>) ELSE c.value

\* string_constant
string_constant(st, c) == EmitValue(st, "python.str_lit", <<>>, <<c>>)

\* int_constant
int_constant(st, c) ==
    IF IntLeq(PyInt(TRUE, TwoTo63), c) /\ IntLess(c, PyInt(FALSE, TwoTo63))
    THEN EmitValue(st, "python.s64_lit", <<>>, <<c>>)
    ELSE EmitValue(st, "python.int_lit", <<>>, << IntStr(c) >>)

\* visit_Constant.  constant_sites records each constant visited and the
\* place of the cursor then.
visit_Constant(st, c) ==
    LET visited(s1) ==
            IF c.type = "str" THEN string_constant(s1, c.value)
            ELSE IF c.type \in IntInstances THEN int_constant(s1, AsInt(c))
            ELSE [ st |-> Raise(s1, "Unknown Constant"), val |-> NoValue ]
    IN  visited([ st EXCEPT !.funcs[st.tr.fn].constant_sites =
                      Append(@, [ c     |-> c,
                                  block |-> st.tr.block,
                                  at    |-> Len(CurFun(st).blocks[st.tr.block].ops) + 1 ]) ])

\* Translator.visit_Name
visit_Name_load(st, e) ==
    IF e.id \in DOMAIN st.tr.cell_map THEN cell_load(st, st.tr.cell_map[e.id])
    ELSE IF builtin_mlir_name(e.id) # None THEN builtin(st, builtin_mlir_name(e.id))
    ELSE [ st |-> Raise(st, "Could not find variable"), val |-> NoValue ]

RECURSIVE checked_visit_expr(_, _)
RECURSIVE VisitAll(_, _, _)
RECURSIVE CompareLoop(_, _, _, _)
RECURSIVE GeneratorLoop(_, _, _, _, _)
RECURSIVE visit_Call(_, _)
RECURSIVE visit_BinOp(_, _)
RECURSIVE visit_UnaryOp(_, _)
RECURSIVE visit_Compare(_, _)
RECURSIVE Translator_visit_Lambda(_, _)
RECURSIVE visit_ListComp(_, _)

\* for a in c.args: args.append(self.checked_visit_expr(a))
VisitAll(st, es, acc) ==
    LET visited(r) == VisitAll(r.st, Tail(es), Append(acc, r.val))
    IN  IF es = <<>> THEN [ st |-> st, vals |-> acc ]
        ELSE visited(checked_visit_expr(st, Head(es)))

\* The loop of visit_Compare, lines 751-757.  compare_sites records, for the
\* i-th operator of the expression, the block that its operation ends.
CompareLoop(st, left, e, i) ==
    LET compared(r, blk) ==
            CompareLoop([ r.st EXCEPT !.funcs[st.tr.fn].compare_sites =
                                          Append(@, [ k |-> i, block |-> blk ]) ],
                        r.val, e, i + 1)
        visited(right) ==
            compared(apply_binop(right.st, left, OperatorMap(e.ops[i]), right.val),
                     right.st.tr.block)
    IN  IF i > Len(e.ops) THEN [ st |-> st, val |-> left ]
        ELSE visited(checked_visit_expr(st, e.comparators[i]))

\* The loop of visit_ListComp that hands every generator the same done block
GeneratorLoop_same_done(st, gens, doneBlock, throwBlock, l) ==
    LET g == Head(gens)
        extended(it, n, al) ==
            GeneratorLoop(
                assign_lhs([ Emit(al.st, al.st.tr.block,
                                  Op("python.scope_extend",
                                     << al.st.tr.scope_value >> \o al.cells,
                                     al.names, <<>>))
                             EXCEPT !.tr.cell_map = al.map,
                                    !.tr.scope_value = NextRes(al.st, al.st.tr.block) ],
                           g.target, n.val),
                Tail(gens), doneBlock, throwBlock, it.val)
        stepped(it, n) ==
            extended(it, n,
                     alloc_variable_cells(SetBlock(n.st, n.bodyBlock), n.st.tr.cell_map,
                                          <<>>, <<>>, n.bodyBlock, g.scope.vars))
        with_next(it, nx) ==
            stepped(it, invoke_next(nx.st, nx.val, nx.st.tr.block, doneBlock, throwBlock))
        iterated(it, i) == with_next(it, get_method(i.st, i.val, "__next__"))
        with_iter(it, m) == iterated(it, invoke(m.st, m.val, <<>>, <<>>))
        visited(it) == with_iter(it, get_method(it.st, it.val, "__iter__"))
    IN  IF gens = <<>> THEN [ st |-> st, doneBlock |-> doneBlock, l |-> l ]
        ELSE visited(checked_visit_expr(st, g.iter))

\* The loop of visit_ListComp, lines 825-850, for the generator g: it is the
\* value of g.iter, n what invoke_next returns, al the cells of the
\* generator's scope; l is the value of the latest g.iter
GeneratorLoop(st, gens, doneBlock, throwBlock, l) ==
    LET g == Head(gens)
        extended(it, n, al) ==
            GeneratorLoop(
                assign_lhs([ Emit(al.st, al.st.tr.block,
                                  Op("python.scope_extend",
                                     << al.st.tr.scope_value >> \o al.cells,
                                     al.names, <<>>))
                             EXCEPT !.tr.cell_map = al.map,
                                    !.tr.scope_value = NextRes(al.st, al.st.tr.block) ],
                           g.target, n.val),
                Tail(gens), n.nextBlock, throwBlock, it.val)
        stepped(it, n) ==
            extended(it, n,
                     alloc_variable_cells(SetBlock(n.st, n.bodyBlock), n.st.tr.cell_map,
                                          <<>>, <<>>, n.bodyBlock, g.scope.vars))
        with_next(it, nx) ==
            stepped(it, invoke_next(nx.st, nx.val, nx.st.tr.block, doneBlock, throwBlock))
        iterated(it, i) == with_next(it, get_method(i.st, i.val, "__next__"))
        with_iter(it, m) == iterated(it, invoke(m.st, m.val, <<>>, <<>>))
        visited(it) == with_iter(it, get_method(it.st, it.val, "__iter__"))
    IN  IF gens = <<>> THEN [ st |-> st, doneBlock |-> doneBlock, l |-> l ]
        ELSE visited(checked_visit_expr(st, g.iter))

\* visit_Call
visit_Call(st, e) ==
    LET invoked(f, as) == invoke(as.st, f.val, as.vals, <<>>)
        visited(f) == invoked(f, VisitAll(f.st, e.args, <<>>))
    IN  visited(checked_visit_expr(st, e.func))

\* visit_BinOp
visit_BinOp(st, e) ==
    LET applied(left, right) ==
            apply_binop(right.st, left.val, OperatorMap(e.op), right.val)
        visited(left) == applied(left, checked_visit_expr(left.st, e.right))
    IN  visited(checked_visit_expr(st, e.left))

\* visit_UnaryOp
visit_UnaryOp(st, e) ==
    LET visited(arg) == Fallible(arg.st, OperatorMap(e.op), <<arg.val>>, <<>>)
    IN  visited(checked_visit_expr(st, e.operand))

\* visit_Compare
visit_Compare(st, e) ==
    LET visited(left) == CompareLoop(left.st, left.val, e, 1)
    IN  visited(checked_visit_expr(st, e.left))

\* Translator.visit_Lambda: c is what create_fun returns
Translator_visit_Lambda(st, e) ==
    LET returned(c, body) ==
            [ st |-> [ returnOp(body.st, body.val) EXCEPT !.tr = c.st.tr ], val |-> c.val ]
        created(c) == returned(c, checked_visit_expr([ c.st EXCEPT !.tr = c.fun ], e.body))
    IN  created(create_fun(st, lambda_name, e.args, e.scope))

\* Translator.visit_ListComp: s0 is the Translator after get_except_block, r
\* the list, ap its append method, lp what the loop over the generators
\* leaves, el the value of the element.  list_comps records, for each
\* comprehension lowered, the list r, the method append, the value returned,
\* finalBlock and the block that the branch of line 857 ends.
visit_ListComp(st, e) ==
    LET appended(r, ap, lp, iv) ==
            [ st  |-> [ Emit(iv.st, iv.st.tr.block,
                             Op("cf.br", <<>>, <<>>, << Succ(lp.doneBlock, <<>>) >>))
                        EXCEPT !.tr.block = NewBlockId(ap.st),
                               !.tr.cell_map = st.tr.cell_map,
                               !.tr.scope_value = st.tr.scope_value,
                               !.funcs[st.tr.fn].list_comps =
                                   Append(@, [ r |-> r.val, append |-> ap.val,
                                               generators |-> Len(e.generators),
                                               finalBlock |-> NewBlockId(ap.st),
                                               branch |-> iv.st.tr.block,
                                               returned |-> lp.l ]) ],
              val |-> lp.l ]
        element(r, ap, lp, el) ==
            appended(r, ap, lp, invoke(el.st, ap.val, <<el.val>>, <<>>))
        looped(r, ap, lp) == element(r, ap, lp, checked_visit_expr(lp.st, e.elt))
        with_append(s0, r, ap) ==
            looped(r, ap,
                   GeneratorLoop(create_after(ap.st, ap.st.tr.block, 0), e.generators,
                                 NewBlockId(ap.st), s0.tr.exceptBlock, NoValue))
        with_list(s0, r) == with_append(s0, r, get_method(r.st, r.val, "append"))
        with_except(s0) == with_list(s0, EmitValue(s0, "python.list", <<>>, <<>>))
    IN  with_except(get_except_block(st))

checked_visit_expr(st, e) ==
    CASE e.k = "Name" -> visit_Name_load(st, e)
      [] e.k = "Constant" -> visit_Constant(st, e)
      [] e.k = "Call" -> visit_Call(st, e)
      [] e.k = "BinOp" -> visit_BinOp(st, e)
      [] e.k = "UnaryOp" -> visit_UnaryOp(st, e)
      [] e.k = "Compare" -> visit_Compare(st, e)
      [] e.k = "Lambda" -> Translator_visit_Lambda(st, e)
      [] e.k = "ListComp" -> visit_ListComp(st, e)

(***************************************************************************)
(* Statements.  A statement with a body is lowered in steps: up to its     *)
(* body, and from the end of the body (of each body, for If).  A frame     *)
(* holds the locals of a visit method that is waiting for a body, and      *)
(* cont, the value visit_stmts has for the body so far.                    *)
(***************************************************************************)
Frame(kind) ==
    [ kind |-> kind, cont |-> TRUE, initBlock |-> NoBlock, newBlock |-> NoBlock,
      falseBlock |-> NoBlock, trueBlock |-> NoBlock, testBlock |-> NoBlock,
      nextBlock |-> NoBlock, doneBlock |-> NoBlock, cond |-> NoValue,
      name |-> "", fun_value |-> NoValue, prevDone |-> <<>> ]

TopFrame(st) == st.tr.frames[Len(st.tr.frames)]

PushFrame(st, f) == [ st EXCEPT !.tr.frames = Append(@, f) ]

PopFrame(st) == [ st EXCEPT !.tr.frames = SubSeq(@, 1, Len(@) - 1) ]

SetCont(st, c) == [ st EXCEPT !.tr.frames[Len(st.tr.frames)].cont = c ]

Branch(st, dest) == Emit(st, st.tr.block, Op("cf.br", <<>>, <<>>, << Succ(dest, <<>>) >>))

Omitted == [ k |-> "Omitted" ]

visit_Expr(st, e) == checked_visit_expr(st, e).st

visit_Assign(st, tgt, value) ==
    LET visited(r) == assign_lhs(r.st, tgt, r.val)
    IN  visited(checked_visit_expr(st, value))

\* if f.cont: cf.br(dest) at the cursor
BranchIf(st, cont, dest) == IF cont THEN Branch(st, dest) ELSE st

\* visit_If, lines 997-1005 (with orelse) or 997-1014 (without): c is the
\* truth value of the test, newBlock the block after the statement, armBlock
\* the block of the arm lowered first
visit_If_begin(st, test, hasElse) ==
    LET opened(c, s2, initBlock, newBlock, armBlock) ==
            PushFrame(SetBlock(s2, armBlock),
                      IF hasElse
                      THEN [ Frame("If.orelse") EXCEPT
                               !.initBlock = initBlock, !.newBlock = newBlock,
                               !.cond = c.val, !.falseBlock = armBlock ]
                      ELSE [ Frame("If.body") EXCEPT
                               !.initBlock = initBlock, !.newBlock = newBlock,
                               !.cond = c.val, !.falseBlock = newBlock,
                               !.trueBlock = armBlock ])
        with_new(c, s1) ==
            opened(c, create_after(s1, c.st.tr.block, 0), c.st.tr.block,
                   NewBlockId(c.st), NewBlockId(s1))
        tested(c) == with_new(c, create_after(c.st, c.st.tr.block, 0))
        visited(t) == tested(truthy(t.st, t.val))
    IN  visited(checked_visit_expr(st, test))

\* visit_If, lines 1006-1014: after the statements of orelse
visit_If_orelse_end(st) ==
    LET branched(f, s1) ==
            PushFrame(PopFrame(SetBlock(create_after(s1, f.initBlock, 0), NewBlockId(s1))),
                      [ f EXCEPT !.kind = "If.body", !.cont = TRUE,
                                 !.trueBlock = NewBlockId(s1) ])
        ended(f) == branched(f, BranchIf(st, f.cont, f.newBlock))
    IN  ended(TopFrame(st))

\* visit_If, lines 1015-1024: after the statements of body
visit_If_body_end(st) ==
    LET ended(f) ==
            PopFrame(SetBlock(Emit(BranchIf(st, f.cont, f.newBlock), f.initBlock,
                                   Op("cf.cond_br", <<f.cond>>, <<>>,
                                      << Succ(f.trueBlock, <<>>),
                                         Succ(f.falseBlock, <<>>) >>)),
                              f.newBlock))
    IN  ended(TopFrame(st))

\* visit_While, lines 1075-1088: c is the truth value of the test, lowered in
\* testBlock
visit_While_begin(st, test) ==
    LET opened(c, s4, testBlock, bodyBlock, doneBlock) ==
            PushFrame(SetBlock(Emit(s4, s4.tr.block,
                                    Op("cf.cond_br", <<c.val>>, <<>>,
                                       << Succ(bodyBlock, <<>>),
                                          Succ(doneBlock, <<>>) >>)),
                               bodyBlock),
                      [ Frame("While") EXCEPT !.testBlock = testBlock,
                                              !.doneBlock = doneBlock ])
        with_body(c, s3, testBlock) ==
            opened(c, create_after(s3, NewBlockId(c.st), 0), testBlock,
                   NewBlockId(c.st), NewBlockId(s3))
        tested(c, testBlock) ==
            with_body(c, create_after(c.st, c.st.tr.block, 0), testBlock)
        visited(t, testBlock) == tested(truthy(t.st, t.val), testBlock)
        at_test(testBlock) ==
            visited(checked_visit_expr(
                        SetBlock(Branch(create_after(st, st.tr.block, 0), testBlock),
                                 testBlock),
                        test),
                    testBlock)
    IN  at_test(NewBlockId(st))

\* visit_While that leaves the end of the body without its branch
visit_While_end_falls_through(st) ==
    LET ended(f) == PopFrame(SetBlock(st, f.doneBlock))
    IN  ended(TopFrame(st))

\* visit_While, lines 1089-1095
visit_While_end(st) ==
    LET ended(f) == PopFrame(SetBlock(BranchIf(st, f.cont, f.testBlock), f.doneBlock))
    IN  ended(TopFrame(st))

\* visit_For, lines 963-976: nx is the __next__ method of the iterator, s1 the
\* Translator after get_except_block, n what invoke_next returns
visit_For_begin(st, target, iter) ==
    LET opened(n, doneBlock) ==
            PushFrame(assign_lhs(SetBlock(n.st, n.bodyBlock), target, n.val),
                      [ Frame("For") EXCEPT !.nextBlock = n.nextBlock,
                                            !.doneBlock = doneBlock ])
        with_done(nx, s1, s2) ==
            opened(invoke_next(s2, nx.val, s2.tr.block, NewBlockId(s1),
                               s1.tr.exceptBlock),
                   NewBlockId(s1))
        with_except(nx, s1) == with_done(nx, s1, create_after(s1, s1.tr.block, 0))
        with_next(nx) == with_except(nx, get_except_block(nx.st))
        iterated(i) == with_next(get_method(i.st, i.val, "__next__"))
        with_iter(m) == iterated(invoke(m.st, m.val, <<>>, <<>>))
        visited(r) == with_iter(get_method(r.st, r.val, "__iter__"))
    IN  visited(checked_visit_expr(st, iter))

\* visit_For, lines 977-983
visit_For_end(st) ==
    LET ended(f) == PopFrame(SetBlock(BranchIf(st, f.cont, f.nextBlock), f.doneBlock))
    IN  ended(TopFrame(st))

\* The closure onDone of visit_With, called: the __exit__ methods of the
\* with-statement that made it, last item first, then prevDone.  chain holds
\* the exit methods of the closure's with-statement last and those of the
\* closures reached through prevDone before it.
RECURSIVE InvokeExits(_, _)
InvokeExits(st, exits) ==
    IF exits = <<>> THEN st
    ELSE InvokeExits(invoke(st, exits[Len(exits)], <<>>, <<>>).st,
                     SubSeq(exits, 1, Len(exits) - 1))

RECURSIVE onDone(_, _)
onDone(st, chain) ==
    IF chain = <<>> THEN st
    ELSE onDone(InvokeExits(st, chain[Len(chain)]), SubSeq(chain, 1, Len(chain) - 1))

\* visit_With, lines 1047-1057: the items; ctx is the context manager, enter
\* and exit its methods, r the value of the call of enter
RECURSIVE WithItems(_, _, _)
WithItems(st, items, exitMethods) ==
    LET item == Head(items)
        entered(exit, r) ==
            WithItems(IF item.optional_vars # ""
                      THEN Raise(r.st, "AttributeError: map")
                      ELSE r.st,
                      Tail(items), Append(exitMethods, exit.val))
        with_exit(enter, exit) == entered(exit, invoke(exit.st, enter.val, <<>>, <<>>))
        with_enter(ctx, enter) ==
            with_exit(enter, get_method(enter.st, ctx.val, "__exit__"))
        visited(ctx) == with_enter(ctx, get_method(ctx.st, ctx.val, "__enter__"))
    IN  IF items = <<>> THEN [ st |-> st, exitMethods |-> exitMethods ]
        ELSE visited(checked_visit_expr(st, item.context_expr))

\* visit_With, lines 1046-1064: prevDone is kept for the end of the body
visit_With_begin(st, items) ==
    LET entered(w) ==
            PushFrame([ w.st EXCEPT !.tr.onDone = Append(@, w.exitMethods) ],
                      [ Frame("With") EXCEPT !.prevDone = w.st.tr.onDone ])
    IN  entered(WithItems(st, items, <<>>))

\* visit_With, lines 1065-1069: the statement returns cont to the visit_stmts
\* that called it.  The closure called at line 1068 is the one line 1064
\* installed.  with_ends records each call of line 1068: the cursor before
\* and after it, the exit methods of the statement, prevDone and self.onDone.
visit_With_end(st) ==
    LET called(f, s2) ==
            [ s2 EXCEPT !.funcs[st.tr.fn].with_ends =
                Append(@, [ block       |-> st.tr.block,
                            at          |-> Len(CurFun(st).blocks[st.tr.block].ops),
                            done        |-> s2.tr.block,
                            exitMethods |-> st.tr.onDone[Len(st.tr.onDone)],
                            prevDone    |-> f.prevDone,
                            onDone      |-> s2.tr.onDone ]) ]
        restored(f, s1) ==
            SetCont(PopFrame(IF f.cont THEN called(f, onDone(s1, st.tr.onDone)) ELSE s1),
                    f.cont)
        ended(f) == restored(f, [ st EXCEPT !.tr.onDone = f.prevDone ])
    IN  ended(TopFrame(st))

\* visit_Return; self.funTranslator is no attribute of a Translator
visit_Return(st, value) ==
    LET visited(ret) == SetCont(returnOp(ret.st, ret.val), FALSE)
        exited(s1) ==
            IF value = Omitted
            THEN SetCont(Raise(s1, "AttributeError: funTranslator"), FALSE)
            ELSE visited(checked_visit_expr(s1, value))
    IN  exited(IF st.tr.onDone # <<>> THEN onDone(st, st.tr.onDone) ELSE st)

\* visit_FunctionDef, line 987, at the end of the body, in the Translator of
\* the function
visit_FunctionDef_body_end(st) ==
    LET returned(n) == returnOp(n.st, n.val)
    IN  IF TopFrame(st).cont THEN returned(none_value(st)) ELSE st

\* translateModule, lines 1110-1126
InitLowering ==
    \E s0 \in { [ funcs  |-> << FuncOp(script_main, 0, VariableScope(<<>>, <<>>),
                                       [ fn |-> 0, block |-> NoBlock,
                                         cell_map |-> << >> ]) >>,
                  counts |-> << >>,
                  tr     |-> Translator(1, 1, NoValue, << >>),
                  err    |-> None ] } :
    \E al \in { alloc_variable_cells(s0, << >>, <<>>, <<>>, 1,
                                      <<"x", "y", "f", "script_main">>) } :
    \E als \in { al.st } :
    \E sc \in { EmitValue(als, "python.scope_init", al.cells, al.names) } :
        /\ funcs = sc.st.funcs
        /\ trs = << [ Translator(1, 1, sc.val, al.map) EXCEPT
                        !.frames = << Frame("Module") >> ] >>
        /\ lowering = [ pc |-> "lower", err |-> None, stmts |-> 0 ]

(***************************************************************************)
(* The programs lowered.  The names read are x and the builtin print; a    *)
(* scope is what VariableCapture records for the node that carries it.     *)
(***************************************************************************)
NameNode(id) == [ id |-> id, loc |-> 0 ]

\* print(x)
CallExpr == Call(Name("print"), << Name("x") >>)

\* x + 1
BinOpExpr == BinOp(Name("x"), "Add", Constant("int", PyInt(FALSE, <<1>>)))

\* not x
UnaryExpr == UnaryOp("Not", Name("x"))

\* x < 1 < x
CompareExpr == Compare(Name("x"), <<"Lt", "Lt">>, << Constant("int", PyInt(FALSE, <<1>>)), Name("x") >>)

\* [e for e in x]
ListComp1 ==
    ListComp(Name("e"), << Generator("e", Name("x"), VariableScope(<<"e">>, <<>>)) >>)

\* [d for e in x for d in e]
ListComp2 ==
    ListComp(Name("d"),
             << Generator("e", Name("x"), VariableScope(<<"e">>, <<>>)),
                Generator("d", Name("e"), VariableScope(<<"d">>, <<>>)) >>)

\* lambda a: x
Lambda1 == Lambda(<<"a">>, Name("x"), VariableScope(<<"a">>, << NameNode("x") >>))

\* lambda: print(y, x)
Lambda2 ==
    Lambda(<<>>, Call(Name("print"), << Name("y"), Name("x") >>),
           VariableScope(<<>>, << NameNode("y"), NameNode("x") >>))

ExprStatements == { CallExpr, ListComp1, ListComp2 }

AssignValues == { Constant("int", PyInt(FALSE, <<1>>)), BinOpExpr, Lambda1, Lambda2 }

IfTests == { Name("x"), CompareExpr }

WhileTests == { Name("x"), UnaryExpr }

ReturnValues == { Omitted, Name("x"), CallExpr }

WithItem(optional_vars) == [ context_expr |-> Name("x"), optional_vars |-> optional_vars ]

\* with x: / with x, x: / with x as x:
WithStatements == { << WithItem("") >>, << WithItem(""), WithItem("") >>, << WithItem("x") >> }

\* def f(): / def f(x): / def f(a): with the names the body refers to, and f
\* defined in the body of the last; def script_main():.  name is s.name as
\* the key of its cell, chars the same string as fresh_symbol reads it.
FunctionDefs ==
    { [ name |-> "f", chars |-> <<"f">>,
        args |-> <<>>, scope |-> VariableScope(<<>>, << NameNode("x") >>) ],
      [ name |-> "f", chars |-> <<"f">>,
        args |-> <<"x">>, scope |-> VariableScope(<<"x">>, <<>>) ],
      [ name |-> "f", chars |-> <<"f">>,
        args |-> <<"a">>,
        scope |-> VariableScope(<<"a", "f">>, << NameNode("y"), NameNode("x") >>) ],
      [ name |-> "script_main", chars |-> script_main,
        args |-> <<>>, scope |-> VariableScope(<<>>, <<>>) ] }

(***************************************************************************)
(* The lowering of a module body, statement by statement                   *)
(***************************************************************************)
Cur == trs[Len(trs)]

CurState == [ funcs |-> funcs, counts |-> mod_vars, tr |-> Cur, err |-> None ]

OpenFrames == LET RECURSIVE Sum(_)
                  Sum(i) == IF i = 0 THEN 0 ELSE Len(trs[i].frames) + Sum(i - 1)
              IN  Sum(Len(trs)) - 1

\* The scope analysis leaves no name without a cell or a builtin: a program
\* whose names do not resolve is not lowered
Resolves(st) == st.err \notin {"Could not find variable", "KeyError"}

Lowered(st, n) ==
    /\ funcs' = st.funcs
    /\ mod_vars' = st.counts
    /\ lowering' = IF st.err # None
                   THEN [ pc |-> "raised", err |-> st.err, stmts |-> lowering.stmts + n ]
                   ELSE [ lowering EXCEPT !.stmts = @ + n ]
    /\ UNCHANGED <<scopeVars, symbols, last_request>>

\* A statement starts where visit_stmts goes on
CanLower ==
    /\ lowering.pc = "lower"
    /\ lowering.stmts < MaxStmts
    /\ Cur.frames[Len(Cur.frames)].cont

CanOpen == CanLower /\ OpenFrames < MaxNest

AtEnd(kind) ==
    /\ lowering.pc = "lower"
    /\ Cur.frames[Len(Cur.frames)].kind = kind

Simple(st) ==
    /\ Resolves(st)
    /\ trs' = [ trs EXCEPT ![Len(trs)] = st.tr ]
    /\ Lowered(st, 1)

Ended(st) ==
    /\ trs' = [ trs EXCEPT ![Len(trs)] = st.tr ]
    /\ Lowered(st, 0)

LowerExpr(e) ==
    /\ CanLower
    /\ \E s0 \in {CurState} : \E st \in { visit_Expr(s0, e) } : Simple(st)

LowerAssign(value) ==
    /\ CanLower
    /\ \E s0 \in {CurState} : \E st \in { visit_Assign(s0, "x", value) } : Simple(st)

LowerIf(test, hasElse) ==
    /\ CanOpen
    /\ \E s0 \in {CurState} : \E st \in { visit_If_begin(s0, test, hasElse) } : Simple(st)

LowerIfOrelseEnd ==
    /\ AtEnd("If.orelse")
    /\ \E s0 \in {CurState} : \E st \in { visit_If_orelse_end(s0) } : Ended(st)

LowerIfBodyEnd ==
    /\ AtEnd("If.body")
    /\ \E s0 \in {CurState} : \E st \in { visit_If_body_end(s0) } : Ended(st)

LowerWhile(test) ==
    /\ CanOpen
    /\ \E s0 \in {CurState} : \E st \in { visit_While_begin(s0, test) } : Simple(st)

LowerWhileEnd ==
    /\ AtEnd("While")
    /\ \E s0 \in {CurState} : \E st \in { visit_While_end(s0) } : Ended(st)

LowerFor ==
    /\ CanOpen
    /\ \E s0 \in {CurState} : \E st \in { visit_For_begin(s0, "x", Name("x")) } : Simple(st)

LowerForEnd ==
    /\ AtEnd("For")
    /\ \E s0 \in {CurState} : \E st \in { visit_For_end(s0) } : Ended(st)

LowerWith(items) ==
    /\ CanOpen
    /\ \E s0 \in {CurState} : \E st \in { visit_With_begin(s0, items) } : Simple(st)

LowerWithEnd ==
    /\ AtEnd("With")
    /\ \E s0 \in {CurState} : \E st \in { visit_With_end(s0) } : Ended(st)

LowerReturn(value) ==
    /\ CanLower
    /\ \E s0 \in {CurState} : \E st \in { visit_Return(s0, value) } : Simple(st)

\* visit_FunctionDef, line 986: the Translator of the new function goes to work
LowerFunctionDef(d) ==
    /\ CanOpen
    /\ d.name \in DOMAIN Cur.cell_map
    /\ \E s0 \in {CurState} : \E c \in { create_fun(s0, d.chars, d.args, d.scope) } :
       \E st \in { c.st } :
           /\ Resolves(st)
           /\ trs' = Append([ trs EXCEPT ![Len(trs)] = st.tr ],
                            [ c.fun EXCEPT !.frames =
                                << [ Frame("FunctionDef") EXCEPT !.name = d.name,
                                                                 !.fun_value = c.val ] >> ])
           /\ Lowered(st, 1)

\* visit_FunctionDef, lines 987-994
LowerFunctionDefEnd ==
    /\ AtEnd("FunctionDef")
    /\ \E s0 \in {CurState} : \E s1 \in { visit_FunctionDef_body_end(s0) } :
       \E s2 \in { [ s1 EXCEPT !.tr = trs[Len(trs) - 1] ] } :
       \E s3 \in { cell_store(s2, s2.tr.block, s2.tr.cell_map[TopFrame(s0).name],
                              TopFrame(s0).fun_value) } :
           /\ trs' = SubSeq(trs, 1, Len(trs) - 2) \o << s3.tr >>
           /\ Lowered(s3, 0)

\* translateModule, lines 1127-1131
LowerModuleEnd ==
    /\ AtEnd("Module")
    /\ \E s0 \in {CurState} : \E n \in { none_value(s0) } : \E ns \in { n.st } :
       \E s1 \in { IF TopFrame(s0).cont THEN returnOp(ns, n.val) ELSE s0 } :
           /\ funcs' = s1.funcs
           /\ trs' = << >>
           /\ lowering' = [ lowering EXCEPT !.pc = "done" ]
           /\ UNCHANGED <<scopeVars, freshVars>>

InitLower == InitAnalysis /\ InitModule /\ InitLowering

NextLower ==
    \/ \E e \in ExprStatements : LowerExpr(e)
    \/ \E v \in AssignValues : LowerAssign(v)
    \/ \E t \in IfTests, hasElse \in BOOLEAN : LowerIf(t, hasElse)
    \/ LowerIfOrelseEnd
    \/ LowerIfBodyEnd
    \/ \E t \in WhileTests : LowerWhile(t)
    \/ LowerWhileEnd
    \/ LowerFor
    \/ LowerForEnd
    \/ \E items \in WithStatements : LowerWith(items)
    \/ LowerWithEnd
    \/ \E v \in ReturnValues : LowerReturn(v)
    \/ \E d \in FunctionDefs : LowerFunctionDef(d)
    \/ LowerFunctionDefEnd
    \/ LowerModuleEnd

SpecLower == InitLower /\ [][NextLower]_vars

(***************************************************************************)
(* The lowering of a module body of constants: a string, the ints around   *)
(* the two ends of the signed 64-bit range, and constants of other kinds   *)
(***************************************************************************)
Literals ==
    << Constant("str", "a"),
      Constant("int", PyInt(FALSE, <<0>>)),
      Constant("int", PyInt(FALSE, [ TwoTo63 EXCEPT ![19] = 7 ])),
      Constant("int", PyInt(FALSE, TwoTo63)),
      Constant("int", PyInt(TRUE, TwoTo63)),
      Constant("int", PyInt(TRUE, [ TwoTo63 EXCEPT ![19] = 9 ])),
      Constant("bool", TRUE),
      Constant("bool", FALSE),
      Constant("NoneType", None),
      Constant("float", "1.5"),
      Constant("bytes", "a") >>

NextConst ==
    \/ \E k \in 1..Len(Literals) : LowerExpr(Literals[k])
    \/ LowerModuleEnd

SpecConst == InitLower /\ [][NextConst]_vars

(***************************************************************************)
(* Properties of the emitted functions                                     *)
(***************************************************************************)
FunIds == 1..Len(funcs)

BlockIds(fn) == 1..Len(funcs[fn].blocks)

OpsOf(fn, b) == funcs[fn].blocks[b].ops

\* The places <<block, index>> of the two-successor operations of a function
FallibleSites(fn) ==
    { site \in UNION { { <<b, i>> : i \in 1..Len(OpsOf(fn, b)) } : b \in BlockIds(fn) } :
        OpsOf(fn, site[1])[site[2]].op \in FallibleOps }

\* The landing pads of a function: the blocks that wrap their argument by
\* mk_except and return it
LandingPads(fn) ==
    { b \in BlockIds(fn) :
        /\ Len(OpsOf(fn, b)) = 2
        /\ OpsOf(fn, b)[1] = Op("python.mk_except", << ArgV(b, 0) >>, <<>>, <<>>)
        /\ OpsOf(fn, b)[2] = Op("func.return", << ResV(b, 1) >>, <<>>, <<>>) }

\* The blocks that hold the __next__ invoke of an invoke_next call
NextBlocks(fn) == { funcs[fn].next_calls[i].nextBlock : i \in 1..Len(funcs[fn].next_calls) }

\* The block returns a value other than None
ReturnsValue(fn, b) ==
    LET ops == OpsOf(fn, b)
    IN  /\ Len(ops) >= 2
        /\ ops[Len(ops)].op = "func.return"
        /\ ops[Len(ops) - 1].op = "python.mk_return"
        /\ LET v == ops[Len(ops) - 1].operands[1]
           IN  ~ (v.kind = "res" /\ OpsOf(fn, v.blk)[v.idx].op = "python.none")

C4_SameFailureSuccessor ==
    \A fn \in FunIds : \A site \in FallibleSites(fn) :
        LET o == OpsOf(fn, site[1])[site[2]]
        IN  /\ Len(o.succ) = 2
            /\ o.succ[2].dest \in LandingPads(fn)
            /\ \A other \in FallibleSites(fn) :
                   OpsOf(fn, other[1])[other[2]].succ[2].dest = o.succ[2].dest

\* C4, amended: every two-successor operation has exactly two successors;
\* the failure successor of every one but the __next__ invokes of invoke_next
\* is one block, the function's landing pad; the failure successor of a
\* __next__ invoke is the except block invoke_next made for it, which is no
\* landing pad and whose branch for exceptions other than StopIteration leads
\* to the landing pad.
C4_FailureSuccessors ==
    \A fn \in FunIds :
        /\ \A site \in FallibleSites(fn) :
              LET o == OpsOf(fn, site[1])[site[2]]
              IN  /\ Len(o.succ) = 2
                  /\ site[1] \notin NextBlocks(fn) =>
                        /\ o.succ[2].dest \in LandingPads(fn)
                        /\ \A other \in FallibleSites(fn) :
                              other[1] \notin NextBlocks(fn) =>
                                  OpsOf(fn, other[1])[other[2]].succ[2].dest
                                      = o.succ[2].dest
        /\ \A k \in 1..Len(funcs[fn].next_calls) :
              LET c == funcs[fn].next_calls[k]
              IN  /\ Len(OpsOf(fn, c.nextBlock)) = 1
                  /\ OpsOf(fn, c.nextBlock)[1].op = "python.invoke"
                  /\ OpsOf(fn, c.nextBlock)[1].succ[2].dest = c.exceptBlock
                  /\ c.exceptBlock \notin LandingPads(fn)
                  /\ OpsOf(fn, c.exceptBlock)[2].op = "cf.cond_br"
                  /\ OpsOf(fn, c.exceptBlock)[2].succ[2].dest \in LandingPads(fn)

\* A function with a __next__ invoke and with two-successor operations
\* besides it
C4_Witness ==
    \E fn \in FunIds :
        /\ funcs[fn].next_calls # <<>>
        /\ \E site \in FallibleSites(fn) : site[1] \in NextBlocks(fn)
        /\ \E site \in FallibleSites(fn) :
              /\ site[1] \notin NextBlocks(fn)
              /\ OpsOf(fn, site[1])[site[2]].op \in BinOps \cup UnaryOps
        /\ \E site \in FallibleSites(fn) :
              /\ site[1] \notin NextBlocks(fn)
              /\ OpsOf(fn, site[1])[site[2]].op = "python.invoke"

\* C5: a function has at most one landing pad; every request for the landing
\* pad of a function returned the same block, the function's landing pad; a
\* function without a two-successor operation has no landing pad.
C5_LandingPadOnce ==
    \A fn \in FunIds :
        /\ Cardinality(LandingPads(fn)) <= 1
        /\ \A i \in 1..Len(funcs[fn].pad_requests) :
              /\ funcs[fn].pad_requests[i] = funcs[fn].pad_requests[1]
              /\ LandingPads(fn) = { funcs[fn].pad_requests[i] }
        /\ FallibleSites(fn) = {} => LandingPads(fn) = {}
        /\ funcs[fn].pad_requests = <<>> => LandingPads(fn) = {}

\* A function whose landing pad was requested by an invoke, by a binary
\* operation and by a loop, and a function without two-successor operation
C5_Witness ==
    /\ \E fn \in FunIds :
          /\ Len(funcs[fn].pad_requests) >= 3
          /\ funcs[fn].next_calls # <<>>
          /\ \E site \in FallibleSites(fn) : OpsOf(fn, site[1])[site[2]].op \in BinOps
    /\ \E fn \in FunIds : FallibleSites(fn) = {} /\ LandingPads(fn) = {}

\* C6: in the blocks of every invoke_next call, the exception thrown by the
\* __next__ invoke arrives as the argument of the except block, which
\* branches on isinstance(exception, StopIteration): if it holds, to the done
\* block supplied, which is not the landing pad, with no argument; if not, to
\* the function's landing pad with the exception as argument.
C6_StopIterationRouting ==
    \A fn \in FunIds : \A k \in 1..Len(funcs[fn].next_calls) :
        LET c  == funcs[fn].next_calls[k]
            ex == OpsOf(fn, c.exceptBlock)
        IN  /\ OpsOf(fn, c.nextBlock)[1].op = "python.invoke"
            /\ OpsOf(fn, c.nextBlock)[1].succ
                   = << Succ(c.bodyBlock, <<>>), Succ(c.exceptBlock, <<>>) >>
            /\ funcs[fn].blocks[c.exceptBlock].nargs = 1
            /\ Len(ex) = 2
            /\ ex[1] = Op("python.isinstance", << ArgV(c.exceptBlock, 0) >>,
                          <<"StopIteration">>, <<>>)
            /\ ex[2].op = "cf.cond_br"
            /\ ex[2].operands = << ResV(c.exceptBlock, 1) >>
            /\ ex[2].succ[1] = Succ(c.doneBlock, <<>>)
            /\ c.doneBlock \notin LandingPads(fn)
            /\ ex[2].succ[2].dest \in LandingPads(fn)
            /\ ex[2].succ[2].args = << ArgV(c.exceptBlock, 0) >>

\* A comprehension of two generators was lowered: the done block of the
\* inner invoke_next call is the next block of the outer one
C6_Witness ==
    \E fn \in FunIds : \E j, k \in 1..Len(funcs[fn].next_calls) :
        /\ j # k
        /\ funcs[fn].next_calls[k].doneBlock = funcs[fn].next_calls[j].nextBlock

\* The places <<function, block, index>> where the closure of function fn is
\* constructed
ClosureSites(fn) ==
    { site \in UNION { UNION { { <<p, b, i>> : i \in 1..Len(OpsOf(p, b)) } :
                               b \in BlockIds(p) } : p \in FunIds } :
        /\ OpsOf(site[1], site[2])[site[3]].op = "python.function_ref"
        /\ OpsOf(site[1], site[2])[site[3]].attr = funcs[fn].symbol }

\* C8: at the construction site of every closure, the capture cells are the
\* creating function's cells of the names of the child scope's free list
\* (parent_vars), in the order of that list, and the child function binds
\* its block argument k, the scope being argument 0, under the k-th name of
\* the list.
C8_CaptureOrder ==
    \A fn \in FunIds : funcs[fn].site.fn # 0 =>
        LET free   == funcs[fn].var_scope.parent_vars
            extend == OpsOf(fn, 1)[Len(funcs[fn].var_scope.vars) + 1]
        IN  /\ Cardinality(ClosureSites(fn)) = 1
            /\ \A site \in ClosureSites(fn) :
                  LET ref == OpsOf(site[1], site[2])[site[3]]
                  IN  /\ site[1] = funcs[fn].site.fn
                      /\ Len(ref.operands) = 1 + Len(free)
                      /\ \A k \in 1..Len(free) :
                            ref.operands[1 + k] = funcs[fn].site.cell_map[free[k].id]
            /\ extend.op = "python.scope_extend"
            /\ \A k \in 1..Len(free) :
                  /\ extend.attr[k] = free[k].id
                  /\ extend.operands[1 + k] = ArgV(1, k)

\* A closure that captures two names whose cells differ
C8_Witness ==
    \E fn \in FunIds :
        /\ funcs[fn].site.fn # 0
        /\ Len(funcs[fn].var_scope.parent_vars) = 2
        /\ \E site \in ClosureSites(fn) :
              OpsOf(site[1], site[2])[site[3]].operands[2]
                  # OpsOf(site[1], site[2])[site[3]].operands[3]

\* The methods invoked by the chain of invoke operations that starts at
\* operation i of block b and ends where the cursor reaches block done
RECURSIVE ExitsInvoked(_, _, _, _)
ExitsInvoked(fn, b, i, done) ==
    IF b = done \/ i > Len(OpsOf(fn, b)) THEN <<>>
    ELSE IF OpsOf(fn, b)[i].op # "python.invoke" THEN <<>>
    ELSE << OpsOf(fn, b)[i].operands[1] >>
             \o ExitsInvoked(fn, OpsOf(fn, b)[i].succ[1].dest, 1, done)

\* C12: where the body of a with-statement falls through, nested ones
\* included, the cleanup invokes the __exit__ of each item of that statement
\* once, last item first, and no __exit__ of an enclosing with-statement;
\* afterwards the on_done chain is the one before the statement.
C12_WithFallThrough ==
    \A fn \in FunIds : \A k \in 1..Len(funcs[fn].with_ends) :
        /\ ExitsInvoked(fn, funcs[fn].with_ends[k].block, funcs[fn].with_ends[k].at + 1,
                        funcs[fn].with_ends[k].done)
               = Reversed(funcs[fn].with_ends[k].exitMethods)
        /\ funcs[fn].with_ends[k].onDone = funcs[fn].with_ends[k].prevDone

\* The exit methods in the order in which the on_done chain invokes them:
\* the innermost with-statement first, the last item of each first
RECURSIVE CleanupOrder(_)
CleanupOrder(chain) ==
    IF chain = <<>> THEN <<>>
    ELSE Reversed(chain[Len(chain)]) \o CleanupOrder(SubSeq(chain, 1, Len(chain) - 1))

\* The state after the Return statement with value v, lowered with the
\* cursor of function fn at operation i of block b and the on_done chain
\* given: no exception; the chain was invoked from the cursor on, innermost
\* first; the cursor's block ends with mk_return of the value, of the result
\* of python.none if v is omitted, and func.return of that; visit_stmts is
\* told to stop.
ReturnLowered(v, fn, b, i, chain) ==
    /\ lowering.pc = "lower"
    /\ ExitsInvoked(fn, b, i, NoBlock) = CleanupOrder(chain)
    /\ ~ Cur.frames[Len(Cur.frames)].cont
    /\ Len(OpsOf(fn, Cur.block)) >= 2
    /\ OpsOf(fn, Cur.block)[Len(OpsOf(fn, Cur.block))]
           = Op("func.return", << ResV(Cur.block, Len(OpsOf(fn, Cur.block)) - 1) >>,
                <<>>, <<>>)
    /\ OpsOf(fn, Cur.block)[Len(OpsOf(fn, Cur.block)) - 1].op = "python.mk_return"
    /\ v = Omitted =>
           /\ Len(OpsOf(fn, Cur.block)) >= 3
           /\ OpsOf(fn, Cur.block)[Len(OpsOf(fn, Cur.block)) - 2].op = "python.none"
           /\ OpsOf(fn, Cur.block)[Len(OpsOf(fn, Cur.block)) - 1].operands
                  = << ResV(Cur.block, Len(OpsOf(fn, Cur.block)) - 2) >>

\* C13: lowering a Return statement, with a value or without, runs the
\* on_done chain innermost first, then lowers the value (none if omitted),
\* ends the block with the return of the wrapped value and stops the
\* lowering of the statement list.
C13_ReturnLowered ==
    [][ \A v \in ReturnValues :
          \A fn \in {Cur.fn}, b \in {Cur.block}, chain \in {Cur.onDone} :
          \A i \in { Len(OpsOf(fn, b)) + 1 } :
              LowerReturn(v) => ReturnLowered(v, fn, b, i, chain)' ]_vars

\* The last operation of block b of function fn
LastOp(fn, b) == OpsOf(fn, b)[Len(OpsOf(fn, b))]

\* C14: a chained comparison is lowered to one two-successor comparison
\* operation per operator, and the left operand of the operation of every
\* operator after the first is the right operand of the operation of the
\* operator before it.
C14_ChainedComparison ==
    \A fn \in FunIds : \A j \in 1..Len(funcs[fn].compare_sites) :
        /\ LastOp(fn, funcs[fn].compare_sites[j].block).op \in BinOps
        /\ Len(LastOp(fn, funcs[fn].compare_sites[j].block).succ) = 2
        /\ funcs[fn].compare_sites[j].k > 1 =>
               LastOp(fn, funcs[fn].compare_sites[j].block).operands[1]
                   = LastOp(fn, funcs[fn].compare_sites[j - 1].block).operands[2]

\* The operation of function fn whose result is the value v
OpOf(fn, v) == OpsOf(fn, v.blk)[v.idx]

\* C15: the value that the lowering of a list comprehension returns is the
\* empty list made at its start, the one whose append method receives the
\* elements, whatever the number of generators.
C15_ListCompValue ==
    \A fn \in FunIds : \A j \in 1..Len(funcs[fn].list_comps) :
        /\ funcs[fn].list_comps[j].r.kind = "res"
        /\ OpOf(fn, funcs[fn].list_comps[j].r).op = "python.list"
        /\ OpOf(fn, funcs[fn].list_comps[j].append)
               = Op("python.get_method", << funcs[fn].list_comps[j].r >>, <<"append">>, <<>>)
        /\ funcs[fn].list_comps[j].returned = funcs[fn].list_comps[j].r

\* The state after a with-statement whose last item binds x was lowered up to
\* its body: no exception, and the block that the call of __enter__ returns
\* to starts with the store of its result into the cell of x
WithBound(x) ==
    /\ lowering.pc = "lower"
    /\ Len(OpsOf(Cur.fn, Cur.block)) >= 1
    /\ OpsOf(Cur.fn, Cur.block)[1]
           = Op("python.cell_store", << Cur.cell_map[x], ArgV(Cur.block, 0) >>, <<>>, <<>>)

\* C16: for a with-item with a binding `as x`, the analysis that accepts the
\* module has x among the locals of the scope of the statement, and the
\* lowering stores the result of the call of __enter__ into the cell of x
\* and raises nothing.
C16_WithBinding ==
    /\ [](driver.pc = "lowering" =>
              \A o \in name_nodes : o.ctx = "With" => o.id \in LocalsOf(o.scope))
    /\ [][ \A items \in WithStatements :
              (LowerWith(items) /\ items[Len(items)].optional_vars # "")
                  => WithBound(items[Len(items)].optional_vars)' ]_vars

\* The names with a cell in the Translator of scope i: its captured names
\* and its locals (create_fun lines 632-641, translateModule lines 1104-1108)
CellNames(i) == LocalsOf(i) \cup FreeOf(i)

\* C17: once the analysis has accepted the module, with no unknown variable,
\* every name of the free list of a nested scope is a local or a free name of
\* the scope right around it, so that the lookup of each captured name where
\* the closure is constructed finds a cell, and every Name that is read is a
\* builtin or has a cell in its scope.
C17_FreeNamesResolve ==
    driver.pc = "lowering" =>
        /\ FreeOf(ModuleScopeId) = {}
        /\ \A i \in DOMAIN scope_map : FreeOf(i) \subseteq CellNames(scope_parent[i])
        /\ \A o \in name_nodes :
               o.ctx = "Load" =>
                   builtin_mlir_name(o.id) # None \/ o.id \in CellNames(o.scope)

\* An accepted module with a scope inside a scope: the inner one reads a name
\* of the module, which the scope between them holds in its free list
C17_Witness ==
    /\ driver.pc = "lowering"
    /\ \E i \in DOMAIN scope_map : \E n \in FreeOf(i) :
          /\ scope_parent[i] # ModuleScopeId
          /\ n \in FreeOf(scope_parent[i])
          /\ n \in LocalsOf(ModuleScopeId)
          /\ \E o \in name_nodes : o.ctx = "Load" /\ o.id = n /\ o.scope = i

\* C18: the symbols of the functions of one module are pairwise distinct:
\* script_main of the module body and the symbol of every function
\* definition and lambda, for a function that is itself named script_main
\* and for definitions that repeat a name.
C18_SymbolsDistinct ==
    \A a, b \in FunIds : a # b => funcs[a].symbol # funcs[b].symbol

\* The name n is a local of scope i and not in its free list
DefinedIn(i, n) == n \in LocalsOf(i) /\ n \notin FreeOf(i)

\* C19: a name that a scope defines (target of an assignment, of a for or of
\* a comprehension, parameter, name of a function definition, import alias)
\* is from then on, to the end of the analysis, a local of that scope and
\* not in its free list, whether it was read in the scope before, is read
\* after, or is the name of a builtin.
C19_DefinedIsLocal ==
    [][ \A s \in {Top.id}, new \in {steps + 1} :
          /\ \A n \in Names :
                /\ addLhs(n) => DefinedIn(s, n)'
                /\ visit_ListComp_generator(n, TRUE) \/ visit_ListComp_generator(n, FALSE)
                       => DefinedIn(new, n)'
                /\ \A args \in ArgLists :
                       visit_FunctionDef(n, args) =>
                           /\ DefinedIn(s, n)'
                           /\ \A k \in 1..Len(args) : DefinedIn(new, args[k])'
          /\ \A args \in ArgLists :
                visit_Lambda(args) => \A k \in 1..Len(args) : DefinedIn(new, args[k])'
          /\ \A i \in ActiveIds \cup DOMAIN scope_map : \A n \in Names :
                DefinedIn(i, n) => DefinedIn(i, n)' ]_vars

\* An accepted module in one scope of which a name was read and then
\* defined, and the name of a builtin was defined
C19_Witness ==
    /\ driver.pc = "lowering"
    /\ \E o1, o2, o3 \in name_nodes :
          /\ o1.ctx = "Load" /\ o2.ctx = "Store" /\ o3.ctx = "Store"
          /\ o1.id = o2.id /\ o1.scope = o2.scope /\ o3.scope = o2.scope
          /\ o1.loc < o2.loc
          /\ builtin_mlir_name(o2.id) = None
          /\ builtin_mlir_name(o3.id) # None
          /\ DefinedIn(o2.scope, o2.id)
          /\ DefinedIn(o3.scope, o3.id)

\* The constant c, visited with the cursor of function fn at operation i of
\* block b, was lowered as stated: a string to a str_lit; an int to an
\* s64_lit of it if -2**63 <= c < 2**63 and else to an int_lit of its decimal
\* string; for any other constant the lowering has raised and emitted
\* nothing
ConstantLowered(c, fn, b, i) ==
    CASE c.type = "str" ->
            /\ Len(OpsOf(fn, b)) >= i
            /\ OpsOf(fn, b)[i].op = "python.str_lit"
            /\ OpsOf(fn, b)[i].attr = << c.value >>
      [] c.type = "int" ->
            /\ Len(OpsOf(fn, b)) >= i
            /\ IF /\ IntLeq(PyInt(TRUE, TwoTo63), c.value)
                  /\ IntLess(c.value, PyInt(FALSE, TwoTo63))
               THEN /\ OpsOf(fn, b)[i].op = "python.s64_lit"
                    /\ OpsOf(fn, b)[i].attr = << c.value >>
               ELSE /\ OpsOf(fn, b)[i].op = "python.int_lit"
                    /\ OpsOf(fn, b)[i].attr = << IntStr(c.value) >>
      [] OTHER ->
            /\ lowering.pc = "raised"
            /\ lowering.err = "Unknown Constant"
            /\ Len(OpsOf(fn, b)) < i

\* C20: a string constant is lowered to str_lit; an int c to s64_lit exactly
\* when -2**63 <= c < 2**63 and else to int_lit with the decimal string of
\* c; a constant of any other kind (bool, None, float, bytes) is a fatal
\* error.
C20_ConstantKinds ==
    \A fn \in FunIds : \A j \in 1..Len(funcs[fn].constant_sites) :
        ConstantLowered(funcs[fn].constant_sites[j].c, fn,
                        funcs[fn].constant_sites[j].block, funcs[fn].constant_sites[j].at)

\* The block reached from block b by n exhaustions: b is the next-block of
\* an invoke_next call, whose except block branches, if the exception is
\* StopIteration, to the block from which the other n - 1 are followed
RECURSIVE ExhaustionChain(_, _, _)
ExhaustionChain(fn, b, n) ==
    IF n = 0 THEN b
    ELSE IF \A k \in 1..Len(funcs[fn].next_calls) : funcs[fn].next_calls[k].nextBlock # b
    THEN NoBlock
    ELSE ExhaustionChain(
             fn,
             LastOp(fn, LastOp(fn, b).succ[2].dest).succ[1].dest,
             n - 1)

\* In every comprehension lowered, the block that the invoke of append
\* returns to is an unconditional branch to the next-block of the last
\* generator, and from
\* there the exhaustion of each generator leads to the next-block of the
\* generator before it, that of the first to the final block
ComprehensionFlow ==
    \A fn \in FunIds : \A j \in 1..Len(funcs[fn].list_comps) :
        /\ LastOp(fn, funcs[fn].list_comps[j].branch).op = "cf.br"
        /\ LastOp(fn, funcs[fn].list_comps[j].branch).operands = <<>>
        /\ Len(OpsOf(fn, funcs[fn].list_comps[j].branch)) = 1
        /\ \E site \in FallibleSites(fn) :
               /\ OpsOf(fn, site[1])[site[2]].op = "python.invoke"
               /\ OpsOf(fn, site[1])[site[2]].operands[1] = funcs[fn].list_comps[j].append
               /\ OpsOf(fn, site[1])[site[2]].succ[1].dest = funcs[fn].list_comps[j].branch
        /\ \A n \in 0..(funcs[fn].list_comps[j].generators - 1) :
               ExhaustionChain(fn, LastOp(fn, funcs[fn].list_comps[j].branch).succ[1].dest, n)
                   \notin {NoBlock, funcs[fn].list_comps[j].finalBlock}
        /\ ExhaustionChain(fn, LastOp(fn, funcs[fn].list_comps[j].branch).succ[1].dest,
                           funcs[fn].list_comps[j].generators)
               = funcs[fn].list_comps[j].finalBlock

\* The state after a comprehension was lowered as an expression statement:
\* the cursor is at the final block of the latest comprehension, and the
\* cell map and the scope value are the given ones
ComprehensionLeft(fn, cell_map, scope_value) ==
    /\ funcs[fn].list_comps # <<>>
    /\ Cur.block = funcs[fn].list_comps[Len(funcs[fn].list_comps)].finalBlock
    /\ OpsOf(fn, Cur.block) = <<>>
    /\ Cur.cell_map = cell_map
    /\ Cur.scope_value = scope_value

\* C21: in the blocks of a list comprehension with generators g1..gn, the
\* exhaustion of the iterator of gk branches to the next-block of g(k-1) for
\* k > 1 and to the final block for k = 1; after the append control
\* branches unconditionally to the next-block of gn; the cursor ends at the
\* final block, with the cell map and the scope value of before.
C21_ComprehensionFlow ==
    /\ []ComprehensionFlow
    /\ [][ \A e \in {ListComp1, ListComp2} :
              \A fn \in {Cur.fn}, cell_map \in {Cur.cell_map},
                 scope_value \in {Cur.scope_value} :
                  LowerExpr(e) => ComprehensionLeft(fn, cell_map, scope_value)' ]_vars

\* A comprehension of two generators was lowered inside a function that has
\* cells of its own, and the cursor is at its final block
C21_Witness ==
    /\ lowering.pc = "lower"
    /\ Cur.fn # 1
    /\ \E j \in 1..Len(funcs[Cur.fn].list_comps) :
          /\ funcs[Cur.fn].list_comps[j].generators = 2
          /\ funcs[Cur.fn].list_comps[j].finalBlock = Cur.block
    /\ ComprehensionFlow

====
